---- MODULE Spec2Model ----
(***************************************************************************)
(* Model of src/main.cpp: the frame loop of main (screen fingerprints, the *)
(* two screen latches, the event list), scan_stigmata_screen with the text *)
(* clean-up of replace_char and trim, output_events, and the pixel         *)
(* arithmetic of screen_test and change_contrast.                          *)
(*                                                                         *)
(* Floating point is modelled in fixed point: confidences and indicators   *)
(* are integers in units of 1/One. Characters are one-character strings;   *)
(* a std::string is a sequence of them and may hold the NUL character.     *)
(***************************************************************************)
EXTENDS Integers, Sequences, FiniteSets, TLC

VARIABLES
    pc,                          \* where main is: "loop", "done", "crashed", "aborted"
    NDEBUG,                      \* whether the build compiles assert() out
    Capture,                     \* the frames read from State.Capture so far, in order
    Events,                      \* State.Events
    HadStigmataScreenIndicator,  \* State.HadStigmataScreenIndicator
    HadLineupScreenIndicator,    \* State.HadLineupScreenIndicator
    LatchWrites,                 \* assignments to each latch during the last iteration
    TessCalls,                   \* regions handed to Tess.Recognize so far, in order
    Output,                      \* the lines OUTPUT has written
    Str,                         \* text unit: the buffer GetUTF8Text returned
    Garbage,                     \* text unit: the byte behind the string's terminator
    Text,                        \* text unit: the std::string Text of the scan
    TextDone,                    \* text unit: whether the clean-up has run
    Pixel,                       \* contrast unit: one channel value of the image
    PixelBefore,                 \* contrast unit: that value before change_contrast
    Contrast,                    \* contrast unit: the factor, in tenths
    ContrastDone,                \* contrast unit: whether change_contrast has run
    TestPixels,                  \* classifier unit: the fingerprint's expected colours
    FramePixels,                 \* classifier unit: the frame's colours at the anchors
    Result                       \* classifier unit: what screen_test returned

vars == <<pc, NDEBUG, Capture, Events, HadStigmataScreenIndicator,
          HadLineupScreenIndicator, LatchWrites, TessCalls, Output,
          Str, Garbage, Text, TextDone, Pixel, PixelBefore, Contrast, ContrastDone,
          TestPixels, FramePixels, Result>>

pipelineVars == <<pc, NDEBUG, Capture, Events, HadStigmataScreenIndicator,
                  HadLineupScreenIndicator, LatchWrites, TessCalls, Output>>
textVars == <<Str, Garbage, Text, TextDone>>
contrastVars == <<Pixel, PixelBefore, Contrast, ContrastDone>>
classifierVars == <<TestPixels, FramePixels, Result>>

----------------------------------------------------------------------------
(* Bounds of the model. *)

MaxFrames == 3
MaxLen == 3
MaxAnchors == 2

----------------------------------------------------------------------------
(* Small helpers. *)

Min(a, b) == IF a < b THEN a ELSE b
Max(a, b) == IF a > b THEN a ELSE b

\* C++ integer conversion and division truncate toward zero.
TruncDiv(a, b) == IF a >= 0 THEN a \div b ELSE -((-a) \div b)

RECURSIVE SqrtSearch(_, _, _)
SqrtSearch(x, lo, hi) ==
    IF lo >= hi THEN lo
    ELSE LET mid == (lo + hi + 1) \div 2
         IN  IF mid * mid <= x THEN SqrtSearch(x, mid, hi)
                               ELSE SqrtSearch(x, lo, mid - 1)

\* floor(sqrt(x)) for 0 <= x < 2^31
ISqrt(x) == SqrtSearch(x, 0, 46340)

IsPrefix(s, t) == Len(s) <= Len(t) /\ SubSeq(t, 1, Len(s)) = s

----------------------------------------------------------------------------
(* clamp, change_contrast *)

clamp(a, lower, upper) == Min(Max(a, lower), upper)

\* One channel of change_contrast. With Contrast = c/10 the float expression
\* (Contrast * (p/255 - 1) + 1 + 0.5) * 255 is (2c(p - 255) + 7650) / 20; for
\* the factors used here it is an integer plus one half, so float rounding
\* cannot move the truncated value.
change_contrast(p, c) ==
    clamp(TruncDiv(2 * c * (p - 255) + 7650, 20), 0, 255)

ContrastFactors == {10, 40}

InitContrast ==
    /\ Pixel \in 0..255
    /\ PixelBefore = Pixel
    /\ Contrast \in ContrastFactors
    /\ ContrastDone = FALSE

ApplyContrast ==
    /\ ~ContrastDone
    /\ Pixel' = change_contrast(Pixel, Contrast)
    /\ ContrastDone' = TRUE
    /\ UNCHANGED <<PixelBefore, Contrast>>

----------------------------------------------------------------------------
(* Text: what GetUTF8Text returns, replace_char, trim *)

NUL == "NUL"
Alphabet == {"a", " ", "\n"}

\* The byte that lies behind the terminator of a std::string's buffer is not
\* part of the string: reading it yields an arbitrary byte, which either is
\* white space or is not.
GarbageBytes == {" ", "?"}

isspace(c) == c \in {" ", "\n"}

RECURSIVE StringsUpTo(_)
StringsUpTo(n) ==
    IF n = 0 THEN {<<>>}
    ELSE LET shorter == StringsUpTo(n - 1)
         IN  shorter \cup {Append(s, c) : s \in shorter, c \in Alphabet}

\* A char*: the null pointer, or a pointer to a NUL-terminated buffer.
NullPtr == [null |-> TRUE, chars |-> <<>>]
PtrTo(s) == [null |-> FALSE, chars |-> s]

\* What dereferencing the null pointer in replace_char can do: the process
\* dies, or the loop finds a terminator at that address and reads nothing.
NullReads == {[crash |-> TRUE, chars |-> <<>>],
              [crash |-> FALSE, chars |-> <<>>]}

Crashed == [crashed |-> TRUE, text |-> <<>>]
Returned(s) == [crashed |-> FALSE, text |-> s]

ReplaceIn(s, ToReplace, ReplaceWith) ==
    [i \in 1..Len(s) |-> IF s[i] = ToReplace THEN ReplaceWith ELSE s[i]]

\* replace_char: ub is the outcome of the dereference when Str is null.
replace_char(S, ToReplace, ReplaceWith, ub) ==
    IF S.null
    THEN IF ub.crash THEN Crashed
         ELSE Returned(ReplaceIn(ub.chars, ToReplace, ReplaceWith))
    ELSE Returned(ReplaceIn(S.chars, ToReplace, ReplaceWith))

\* The byte at 1-based position i of the buffer of String: its characters,
\* the terminator, then the byte g behind the terminator.
CharAt(String, g, i) ==
    IF i <= Len(String) THEN String[i]
    ELSE IF i = Len(String) + 1 THEN NUL
    ELSE g

\* while (Str[0] && isspace(Str[0])) Str++;
RECURSIVE SkipLeading(_, _)
SkipLeading(String, i) ==
    IF i <= Len(String) /\ isspace(String[i])
    THEN SkipLeading(String, i + 1)
    ELSE i

\* while (Ptr > Str && !isspace(Ptr[0])) Ptr--;
RECURSIVE BackUp(_, _, _, _)
BackUp(String, g, start, p) ==
    IF p > start /\ ~isspace(CharAt(String, g, p))
    THEN BackUp(String, g, start, p - 1)
    ELSE p

\* trim: `while (*Ptr++);` leaves Ptr one past the terminator, at position
\* Len + 2, so the first byte the backward loop tests is g.
trim(String, g) ==
    LET start == SkipLeading(String, 1)
        Ptr   == BackUp(String, g, start, Len(String) + 2)
    IN  [i \in 1..(Ptr - start) |-> CharAt(String, g, start + i - 1)]

\* std::string Text = trim(replace_char(Str, '\n', ' '));
CleanText(S, g, ub) ==
    LET r == replace_char(S, "\n", " ", ub)
    IN  IF r.crashed THEN Crashed ELSE Returned(trim(r.text, g))

InitText ==
    /\ Str \in {NullPtr} \cup {PtrTo(s) : s \in StringsUpTo(MaxLen)}
    /\ Garbage \in GarbageBytes
    /\ Text = Returned(<<>>)
    /\ TextDone = FALSE

ApplyText ==
    /\ ~TextDone
    /\ \E ub \in NullReads : Text' = CleanText(Str, Garbage, ub)
    /\ TextDone' = TRUE
    /\ UNCHANGED <<Str, Garbage>>

----------------------------------------------------------------------------
(* screen_test *)

\* Fixed point: 1.0 is One.
One == 1000000

StigmataScreenThresholdConfidence == 970000
LineupScreenThresholdConfidence == 970000

\* Expected colours (Color[0], Color[1], Color[2]) of the two fingerprints.
StigmataScreenIndicators ==
    << <<238, 154, 255>>, <<255, 221, 71>>, <<255, 221, 71>>,
       <<255, 221, 71>>, <<0, 201, 255>> >>
LineupScreenIndicators ==
    << <<255, 221, 71>>, <<255, 221, 71>>, <<255, 221, 71>>,
       <<255, 219, 72>>, <<0, 90, 126>> >>

square(x) == x * x

\* 2.f * (0xff + observed - expected) / 510.f - 1.f, in units of 1/255.
Delta(observed, expected) == (2 * (255 + observed - expected) * 255) \div 510 - 255

\* sqrtf(square(RDelta) + square(GDelta) + square(BDelta)) / (3.f * TestPixelCount)
\* in units of 1/One: the deltas are in units of 1/255 and ISqrt(10000 * S)
\* is 100 * sqrt(S), so the term is 100 * sqrt(S) * 10000 / (255 * 3 * Count).
IndicatorTerm_m(Observed, Expected, TestPixelCount) ==
    LET S == square(Delta(Observed[1], Expected[1]))
           + square(Delta(Observed[2], Expected[2]))
           + square(Delta(Observed[3], Expected[3]))
    IN  (ISqrt(10000 * S) * 10000) \div (255 * 3)
IndicatorTerm(Observed, Expected, TestPixelCount) ==
    LET S == square(Delta(Observed[1], Expected[1]))
           + square(Delta(Observed[2], Expected[2]))
           + square(Delta(Observed[3], Expected[3]))
    IN  (ISqrt(10000 * S) * 10000) \div (255 * 3 * TestPixelCount)

RECURSIVE IndicatorSum(_, _, _)
IndicatorSum(Observed, Expected, i) ==
    IF i = 0 THEN 0
    ELSE IndicatorSum(Observed, Expected, i - 1)
         + IndicatorTerm(Observed[i], Expected[i], Len(Expected))

Indicator(Observed, Expected) == IndicatorSum(Observed, Expected, Len(Expected))

\* 1.f - Indicator
Confidence(Observed, Expected) == One - Indicator(Observed, Expected)

\* screen_test: Observed are the frame's pixels at the anchors of Expected.
screen_test(Observed, Expected, ThresholdConfidence) ==
    Confidence(Observed, Expected) >= ThresholdConfidence

ExpectedColors == {<<0, 0, 0>>, <<255, 255, 255>>, <<0, 255, 0>>, <<238, 154, 255>>}
ObservedColors == {<<0, 0, 0>>, <<255, 255, 255>>, <<255, 0, 255>>, <<238, 154, 255>>}

NoResult == [done |-> FALSE, confidence |-> 0, matched |-> FALSE]

InitClassifier ==
    /\ \E n \in 1..MaxAnchors :
          /\ TestPixels \in [1..n -> ExpectedColors]
          /\ FramePixels \in [1..n -> ObservedColors]
    /\ Result = NoResult

ApplyScreenTest ==
    /\ ~Result.done
    /\ Result' = [done |-> TRUE,
                  confidence |-> Confidence(FramePixels, TestPixels),
                  matched |-> screen_test(FramePixels, TestPixels,
                                          StigmataScreenThresholdConfidence)]
    /\ UNCHANGED <<TestPixels, FramePixels>>

----------------------------------------------------------------------------
(* Frames and the recognition collaborator *)

TargetSize == "1920x1080"
OtherSize == "other"

\* A frame of the video: whether its buffer is continuous, its size, and how
\* far each channel of the pixels at the anchors of each fingerprint lies
\* from the fingerprint's colour (for a frame of another size: in the image
\* cv::resize makes of it).
FramesOf(deltas) ==
    [continuous : BOOLEAN, size : {TargetSize, OtherSize},
     stig : deltas, line : deltas]

Shift(c, d) == IF c >= d THEN c - d ELSE c + d

PixelsAt(Expected, d) ==
    [i \in 1..Len(Expected) |->
        <<Shift(Expected[i][1], d), Shift(Expected[i][2], d), Shift(Expected[i][3], d)>>]

\* cv::resize(Frame, ResizedFrame, TargetSize)
resize(f) == [f EXCEPT !.size = TargetSize]

\* if (Frame.size() != TargetSize) { resize; RefFrame = &ResizedFrame; }
RefFrame(f) == IF f.size # TargetSize THEN resize(f) ELSE f

\* if (Frame.isContinuous())
FrameGuard_m(f) == f.continuous /\ f.size = TargetSize
FrameGuard(f) == f.continuous

\* The distances at which screen_test accepts a frame, per fingerprint.
FrameDeltas == {0, 13, 14}
StigmataMatches ==
    {d \in FrameDeltas :
        screen_test(PixelsAt(StigmataScreenIndicators, d), StigmataScreenIndicators,
                    StigmataScreenThresholdConfidence)}
LineupMatches ==
    {d \in FrameDeltas :
        screen_test(PixelsAt(LineupScreenIndicators, d), LineupScreenIndicators,
                    LineupScreenThresholdConfidence)}

\* screen_test(RefFrame, TargetSize, <fingerprint>, ...) in the frame loop
StigmataTest(f) == f.stig \in StigmataMatches
LineupTest(f) == f.line \in LineupMatches

\* One recognition: the buffer GetUTF8Text returns, the byte behind the
\* terminator of the cleaned string, and the outcome of a null dereference.
NoRead == [crash |-> FALSE, chars |-> <<>>]
RecognitionsOf(texts, bytes, reads) ==
    {[Str |-> PtrTo(t), g |-> b, ub |-> NoRead] : t \in texts, b \in bytes}
    \cup {[Str |-> NullPtr, g |-> b, ub |-> u] : b \in bytes, u \in {r \in reads : ~r.crash}}
    \cup {[Str |-> NullPtr, g |-> "?", ub |-> u] : u \in {r \in reads : r.crash}}

----------------------------------------------------------------------------
(* add_event, scan_stigmata_screen, scan_lineup_screen, output_events *)

NoValue == <<>>

add_event_m(E, Type, Value) == <<[Type |-> Type, Value |-> Value]>> \o E
add_event(E, Type, Value) == Append(E, [Type |-> Type, Value |-> Value])

Regions == <<"Name", "T", "M", "B">>
RegionEvent(i) == IF i = 1 THEN "EVENT_VALKYRIE_NAME" ELSE "EVENT_STIGMATA"

\* One region: SetImage, Recognize, GetUTF8Text, clean-up, add_event. A crash
\* in replace_char ends the scan before the event is added.
ScanRegion(st, i, rec) ==
    IF st.crashed THEN st
    ELSE LET calls == Append(st.TessCalls, [region |-> Regions[i], returned |-> rec.Str])
             text  == CleanText(rec.Str, rec.g, rec.ub)
         IN  IF text.crashed
             THEN [Events |-> st.Events, TessCalls |-> calls, crashed |-> TRUE]
             ELSE [Events |-> add_event(st.Events, RegionEvent(i), text.text),
                   TessCalls |-> calls, crashed |-> FALSE]

RECURSIVE ScanRegions(_, _, _)
ScanRegions(st, i, recs) ==
    IF i = 0 THEN st ELSE ScanRegion(ScanRegions(st, i - 1, recs), i, recs[i])

scan_stigmata_screen(E, calls, recs) ==
    ScanRegions([Events |-> add_event(E, "EVENT_STIGMATA_SCREEN", NoValue),
                 TessCalls |-> calls, crashed |-> FALSE],
                Len(Regions), recs)

scan_lineup_screen(E) == add_event(E, "EVENT_LINEUP_SCREEN", NoValue)

\* Value.c_str() printed with %s: the characters before the first NUL.
RECURSIVE CStr(_)
CStr(v) ==
    IF v = <<>> \/ Head(v) = NUL THEN <<>> ELSE <<Head(v)>> \o CStr(Tail(v))

OutputLine(Event) ==
    IF Event.Type = "EVENT_STIGMATA_SCREEN" THEN <<"[STIGMATA_SCREEN]">>
    ELSE IF Event.Type = "EVENT_STIGMATA" THEN <<"Stigmata=", CStr(Event.Value)>>
    ELSE IF Event.Type = "EVENT_VALKYRIE_NAME" THEN <<"Valkyrie=", CStr(Event.Value)>>
    ELSE IF Event.Type = "EVENT_LINEUP_SCREEN" THEN <<"[LINEUP_SCREEN]">>
    ELSE <<>>

\* output_events: one OUTPUT line per event of a handled type, first to last.
RECURSIVE output_events(_)
output_events(E) ==
    IF E = <<>> THEN <<>>
    ELSE (IF OutputLine(Head(E)) = <<>> THEN <<>> ELSE <<OutputLine(Head(E))>>)
         \o output_events(Tail(E))

----------------------------------------------------------------------------
(* The frame loop of main *)

\* `check` after `if (check && screen_test(...)) { check = false; ... }`
CheckAfter_m(check, matched) == check
CheckAfter(check, matched) == IF check /\ matched THEN FALSE ELSE check

\* if (!State.Had...) { State.Had... = true; scan(...); }
Enters(had, taken) == taken /\ ~had

\* The latch after the if/else, where taken is `check && screen_test(...)`.
LatchAfter_m(had, taken) == IF taken THEN TRUE ELSE had
LatchAfter(had, taken) == IF taken THEN (IF ~had THEN TRUE ELSE had) ELSE FALSE

\* How many times the if/else assigns the latch.
WritesOf(had, taken) == IF taken THEN (IF ~had THEN 1 ELSE 0) ELSE 1

NoWrites == [stig |-> 0, line |-> 0]

InitPipeline ==
    /\ pc = "loop"
    /\ NDEBUG \in BOOLEAN
    /\ Capture = <<>>
    /\ Events = <<>>
    /\ HadStigmataScreenIndicator = FALSE
    /\ HadLineupScreenIndicator \in BOOLEAN  \* never initialised: any value
    /\ LatchWrites = NoWrites
    /\ TessCalls = <<>>
    /\ Output = <<>>

\* One iteration whose frame passes the guard: both fingerprint tests with
\* their latches, and the scans they trigger. The recognitions are drawn
\* from recognitions when the iteration scans the stigmata screen.
Iterate(f, recognitions, limit) ==
    /\ pc = "loop"
    /\ Len(Capture) < limit
    /\ FrameGuard(f)
    /\ LET ref       == RefFrame(f)
           stigTaken == TRUE /\ StigmataTest(ref)
           stigEnter == Enters(HadStigmataScreenIndicator, stigTaken)
           check     == CheckAfter(TRUE, StigmataTest(ref))
           lineTaken == check /\ LineupTest(ref)
           lineEnter == Enters(HadLineupScreenIndicator, lineTaken)
       IN  \E recs \in IF stigEnter THEN [1..Len(Regions) -> recognitions]
                                    ELSE {<<>>} :
           LET scanned == IF stigEnter
                          THEN scan_stigmata_screen(Events, TessCalls, recs)
                          ELSE [Events |-> Events, TessCalls |-> TessCalls,
                                crashed |-> FALSE]
           IN  /\ Capture' = Append(Capture, f)
               /\ HadStigmataScreenIndicator' =
                      LatchAfter(HadStigmataScreenIndicator, stigTaken)
               /\ TessCalls' = scanned.TessCalls
               /\ IF scanned.crashed
                  THEN /\ pc' = "crashed"
                       /\ Events' = scanned.Events
                       /\ HadLineupScreenIndicator' = HadLineupScreenIndicator
                       /\ LatchWrites' =
                              [stig |-> WritesOf(HadStigmataScreenIndicator, stigTaken),
                               line |-> 0]
                  ELSE /\ pc' = "loop"
                       /\ Events' = IF lineEnter
                                    THEN scan_lineup_screen(scanned.Events)
                                    ELSE scanned.Events
                       /\ HadLineupScreenIndicator' =
                              LatchAfter(HadLineupScreenIndicator, lineTaken)
                       /\ LatchWrites' =
                              [stig |-> WritesOf(HadStigmataScreenIndicator, stigTaken),
                               line |-> WritesOf(HadLineupScreenIndicator, lineTaken)]
    /\ UNCHANGED <<NDEBUG, Output>>

\* One iteration whose frame fails the guard in a build without assert.
SkipFrame(f, limit) ==
    /\ pc = "loop"
    /\ Len(Capture) < limit
    /\ NDEBUG
    /\ ~FrameGuard(f)
    /\ Capture' = Append(Capture, f)
    /\ LatchWrites' = NoWrites
    /\ UNCHANGED <<pc, NDEBUG, Events, HadStigmataScreenIndicator,
                   HadLineupScreenIndicator, TessCalls, Output>>

\* assert(Frame.isContinuous()) in a build with assert.
AssertFails(f, limit) ==
    /\ pc = "loop"
    /\ Len(Capture) < limit
    /\ ~NDEBUG
    /\ ~f.continuous
    /\ Capture' = Append(Capture, f)
    /\ pc' = "aborted"
    /\ LatchWrites' = NoWrites
    /\ UNCHANGED <<NDEBUG, Events, HadStigmataScreenIndicator,
                   HadLineupScreenIndicator, TessCalls, Output>>

\* The capture yields an empty frame: the loop ends and output_events runs.
EndOfVideo ==
    /\ pc = "loop"
    /\ Output' = output_events(Events)
    /\ pc' = "done"
    /\ LatchWrites' = NoWrites
    /\ UNCHANGED <<NDEBUG, Capture, Events, HadStigmataScreenIndicator,
                   HadLineupScreenIndicator, TessCalls>>

----------------------------------------------------------------------------
(* Specifications *)

IdlePipeline ==
    /\ pc = "done"
    /\ NDEBUG = TRUE
    /\ Capture = <<>>
    /\ Events = <<>>
    /\ HadStigmataScreenIndicator = FALSE
    /\ HadLineupScreenIndicator = FALSE
    /\ LatchWrites = NoWrites
    /\ TessCalls = <<>>
    /\ Output = <<>>
IdleText ==
    /\ Str = NullPtr
    /\ Garbage = "?"
    /\ Text = Returned(<<>>)
    /\ TextDone = TRUE
IdleContrast ==
    /\ Pixel = 0
    /\ PixelBefore = 0
    /\ Contrast = 10
    /\ ContrastDone = TRUE
IdleClassifier ==
    /\ TestPixels = <<>>
    /\ FramePixels = <<>>
    /\ Result = [done |-> TRUE, confidence |-> One, matched |-> TRUE]

\* The frame loop: frames of either size, continuous or not, whose anchors
\* sit exactly on a fingerprint or 14 off it on every channel; recognition
\* returns a line of text or fails.
LoopDeltas == {0, 14}
LoopFrames == FramesOf(LoopDeltas)
LoopRecognitions ==
    RecognitionsOf({<<"a", "\n">>}, {"?"}, {r \in NullReads : r.crash})

Init == InitPipeline /\ IdleText /\ IdleContrast /\ IdleClassifier

unitVars == <<textVars, contrastVars, classifierVars>>

LoopIterate ==
    /\ \E f \in LoopFrames : Iterate(f, LoopRecognitions, MaxFrames)
    /\ UNCHANGED unitVars
LoopSkip ==
    /\ \E f \in LoopFrames : SkipFrame(f, MaxFrames)
    /\ UNCHANGED unitVars
LoopAssert ==
    /\ \E f \in LoopFrames : AssertFails(f, MaxFrames)
    /\ UNCHANGED unitVars
LoopEnd == EndOfVideo /\ UNCHANGED unitVars

Next == LoopIterate \/ LoopSkip \/ LoopAssert \/ LoopEnd

Spec == Init /\ [][Next]_vars

\* The scans: continuous frames of the target size that match the stigmata
\* fingerprint or nothing; recognition returns nothing, a line of text or
\* fails, with every outcome of the null dereference in replace_char and of
\* the read behind the terminator in trim.
MaxScanFrames == 2
ScanFrames ==
    {f \in FramesOf(LoopDeltas) : f.continuous /\ f.size = TargetSize /\ f.line = 14}
ScanRecognitions == RecognitionsOf({<<>>, <<"a", "\n">>}, GarbageBytes, NullReads)

ScanIterate ==
    /\ \E f \in ScanFrames : Iterate(f, ScanRecognitions, MaxScanFrames)
    /\ UNCHANGED unitVars

NextScan == ScanIterate \/ LoopEnd

SpecScan == Init /\ [][NextScan]_vars

\* The text clean-up alone.
InitTextUnit == IdlePipeline /\ InitText /\ IdleContrast /\ IdleClassifier
NextText == ApplyText /\ UNCHANGED <<pipelineVars, contrastVars, classifierVars>>
SpecText == InitTextUnit /\ [][NextText]_vars

\* change_contrast alone.
InitContrastUnit == IdlePipeline /\ IdleText /\ InitContrast /\ IdleClassifier
NextContrast == ApplyContrast /\ UNCHANGED <<pipelineVars, textVars, classifierVars>>
SpecContrast == InitContrastUnit /\ [][NextContrast]_vars

\* screen_test alone.
InitClassifierUnit == IdlePipeline /\ IdleText /\ IdleContrast /\ InitClassifier
NextClassifier == ApplyScreenTest /\ UNCHANGED <<pipelineVars, textVars, contrastVars>>
SpecClassifier == InitClassifierUnit /\ [][NextClassifier]_vars

----------------------------------------------------------------------------
(* Properties *)

Last(seq) == seq[Len(seq)]

ScreenEvents == {"EVENT_STIGMATA_SCREEN", "EVENT_LINEUP_SCREEN"}
FieldEvents == {"EVENT_VALKYRIE_NAME", "EVENT_STIGMATA"}

CountOf(seq, types) == Cardinality({i \in DOMAIN seq : seq[i].Type \in types})
TypesOf(seq) == [i \in DOMAIN seq |-> seq[i].Type]

\* A step that reads one more frame, and the events that step appends.
ReadsFrame == Len(Capture') = Len(Capture) + 1
Appended == SubSeq(Events', Len(Events) + 1, Len(Events'))

AllContinuous(frames) == \A i \in DOMAIN frames : frames[i].continuous

\* C1: for each tag, a frame appends exactly one screen-entered event of the
\* tag when the tag's fingerprint matches it and the frame is the first of
\* the video or follows a frame the fingerprint does not match (the first
\* frame of a maximal run of matches), and none otherwise.
C1_OneEnteredEventPerRun ==
    [][(ReadsFrame /\ AllContinuous(Capture')) =>
          LET f == RefFrame(Last(Capture'))
              stigFirst == /\ StigmataTest(f)
                           /\ (Capture = <<>> \/ ~StigmataTest(RefFrame(Last(Capture))))
              lineFirst == /\ LineupTest(f)
                           /\ (Capture = <<>> \/ ~LineupTest(RefFrame(Last(Capture))))
          IN  /\ CountOf(Appended, {"EVENT_STIGMATA_SCREEN"}) = (IF stigFirst THEN 1 ELSE 0)
              /\ CountOf(Appended, {"EVENT_LINEUP_SCREEN"}) = (IF lineFirst THEN 1 ELSE 0)]_vars

\* C2 as claimed: before any frame after the first, each latch equals the
\* verdict of its fingerprint on the frame just before, and the iteration
\* of that frame wrote each latch exactly once.
C2_LatchIsPrecedingVerdict ==
    (pc = "loop" /\ Capture # <<>>) =>
        /\ HadStigmataScreenIndicator = StigmataTest(RefFrame(Last(Capture)))
        /\ HadLineupScreenIndicator = LineupTest(RefFrame(Last(Capture)))
        /\ LatchWrites = [stig |-> 1, line |-> 1]

HasClassified == \E i \in DOMAIN Capture : Capture[i].continuous
LastClassified ==
    Capture[CHOOSE i \in DOMAIN Capture :
                /\ Capture[i].continuous
                /\ \A j \in DOMAIN Capture : j > i => ~Capture[j].continuous]

\* C2 as amended: before any frame that follows a classified (continuous)
\* frame, the stigmata latch equals the stigmata verdict on the last
\* classified frame and the lineup latch equals the lineup verdict on it
\* with stigmata not matching it; an iteration writes each latch at most
\* once, and a skipped frame writes neither.
C2_LatchIsLastClassifiedVerdict ==
    /\ LatchWrites.stig <= 1 /\ LatchWrites.line <= 1
    /\ (pc = "loop" /\ Capture # <<>> /\ ~Last(Capture).continuous) =>
           LatchWrites = NoWrites
    /\ (pc = "loop" /\ HasClassified) =>
           LET f == RefFrame(LastClassified)
           IN  /\ HadStigmataScreenIndicator = StigmataTest(f)
               /\ HadLineupScreenIndicator = (LineupTest(f) /\ ~StigmataTest(f))

\* A frame matching both fingerprints has been classified after another
\* frame: the stigmata latch is set and the lineup latch is clear.
C2_Witness ==
    /\ pc = "loop"
    /\ Len(Capture) >= 2
    /\ Last(Capture).continuous
    /\ StigmataTest(RefFrame(Last(Capture)))
    /\ LineupTest(RefFrame(Last(Capture)))
    /\ HadStigmataScreenIndicator
    /\ ~HadLineupScreenIndicator

BothMatch(f) == f.continuous /\ StigmataTest(RefFrame(f)) /\ LineupTest(RefFrame(f))

\* C3 as claimed: a frame that both fingerprints match appends exactly one
\* screen-entered event, the stigmata one, and no frame appends two.
C3_ExactlyOneEnteredWhenBothMatch ==
    [][ReadsFrame =>
          /\ CountOf(Appended, ScreenEvents) <= 1
          /\ BothMatch(Last(Capture')) =>
                /\ CountOf(Appended, ScreenEvents) = 1
                /\ CountOf(Appended, {"EVENT_STIGMATA_SCREEN"}) = 1]_vars

\* C3 as amended: no frame appends two screen-entered events; a frame that
\* both fingerprints match never appends the lineup one, and appends the
\* stigmata one exactly when the stigmata latch was clear before the frame.
C3_AtMostOneEnteredStigmataFirst ==
    [][ReadsFrame =>
          /\ CountOf(Appended, ScreenEvents) <= 1
          /\ BothMatch(Last(Capture')) =>
                /\ CountOf(Appended, {"EVENT_LINEUP_SCREEN"}) = 0
                /\ CountOf(Appended, {"EVENT_STIGMATA_SCREEN"}) =
                       (IF HadStigmataScreenIndicator THEN 0 ELSE 1)]_vars

\* Two frames that both fingerprints match have been classified: the first
\* appended the stigmata screen event and its four fields, the second nothing.
C3_Witness ==
    /\ pc = "loop"
    /\ Len(Capture) = 2
    /\ BothMatch(Capture[1])
    /\ BothMatch(Capture[2])
    /\ TypesOf(Events) = <<"EVENT_STIGMATA_SCREEN", "EVENT_VALKYRIE_NAME",
                           "EVENT_STIGMATA", "EVENT_STIGMATA", "EVENT_STIGMATA">>

\* Frames 1..k match the stigmata fingerprint and the frames after them
\* match nothing.
StigmataRunThenNothing(frames) ==
    /\ AllContinuous(frames)
    /\ \E k \in 1..Len(frames) :
          /\ \A i \in 1..k : StigmataTest(RefFrame(frames[i]))
          /\ \A i \in (k + 1)..Len(frames) :
                ~StigmataTest(RefFrame(frames[i])) /\ ~LineupTest(RefFrame(frames[i]))

\* C4: when the run over such a sequence has ended, the timeline is the
\* stigmata screen event, the name field and the three stigmata fields, and
\* recognition was attempted once for each of the four regions.
C4_TimelineOfOneStigmataRun ==
    (pc \in {"done", "crashed"} /\ StigmataRunThenNothing(Capture)) =>
        /\ TypesOf(Events) = <<"EVENT_STIGMATA_SCREEN", "EVENT_VALKYRIE_NAME",
                               "EVENT_STIGMATA", "EVENT_STIGMATA", "EVENT_STIGMATA">>
        /\ [i \in DOMAIN TessCalls |-> TessCalls[i].region] = Regions

C6_AppendOnlyAndOutputInOrder ==
    /\ [][IsPrefix(Events, Events')]_vars
    /\ [](pc = "done" =>
             Output = [i \in DOMAIN Events |-> OutputLine(Events[i])])

\* The video ended after both screens were entered and everything was output.
C6_Witness ==
    /\ pc = "done"
    /\ CountOf(Events, {"EVENT_STIGMATA_SCREEN"}) >= 1
    /\ CountOf(Events, {"EVENT_LINEUP_SCREEN"}) >= 1
    /\ Events[1].Type = "EVENT_LINEUP_SCREEN"
    /\ Len(Output) = Len(Events)

\* Removing leading and trailing white space, as the claims describe it.
RECURSIVE StripLeading(_)
StripLeading(t) ==
    IF t # <<>> /\ isspace(Head(t)) THEN StripLeading(Tail(t)) ELSE t
RECURSIVE StripTrailing(_)
StripTrailing(t) ==
    IF t # <<>> /\ isspace(Last(t)) THEN StripTrailing(SubSeq(t, 1, Len(t) - 1)) ELSE t
Stripped(t) == StripTrailing(StripLeading(t))

\* C7: the text stored for a returned buffer is the buffer with every
\* newline replaced by a space and leading and trailing white space removed
\* (the stored text read as output_events prints it, up to its first NUL).
C7_StoredTextIsTrimmed ==
    (TextDone /\ ~Str.null) =>
        /\ ~Text.crashed
        /\ CStr(Text.text) = Stripped(ReplaceIn(Str.chars, "\n", " "))

\* The field events of the timeline, in order: recognition i of a run that
\* has not crashed made field event i.
FieldsOf(E) == SelectSeq(E, LAMBDA e : e.Type \in FieldEvents)
NoText(returned) == returned.null \/ returned.chars = <<>>

\* C8: the run never aborts in a recognition, and a recognition that fails
\* or returns no text leaves a field event whose text (as output_events
\* prints it, up to its first NUL) is empty.
C8_FailedRecognitionIsEmptyField ==
    /\ pc # "crashed"
    /\ \A i \in DOMAIN TessCalls :
          NoText(TessCalls[i].returned) =>
              /\ i <= Len(FieldsOf(Events))
              /\ CStr(FieldsOf(Events)[i].Value) = <<>>

MaxDistance(Observed, Expected) ==
    \A c \in 1..3 : \/ Expected[c] = 0 /\ Observed[c] = 255
                    \/ Expected[c] = 255 /\ Observed[c] = 0
AllMaxDistance ==
    \A i \in DOMAIN TestPixels : MaxDistance(FramePixels[i], TestPixels[i])

\* C9 as claimed: with every anchor at maximal distance the confidence is 0.
C9_MaxDistanceIsZero ==
    (Result.done /\ AllMaxDistance) => Result.confidence = 0

\* C9 as amended: with every anchor at maximal distance the confidence is
\* 1 - sqrt(3)/3 = 0.42265 (to the precision of the fixed point), whatever
\* the number of anchors, and the frame does not match.
C9_MaxDistanceIsOneMinusRootThreeOverThree ==
    (Result.done /\ AllMaxDistance) =>
        /\ Result.confidence >= 422600
        /\ Result.confidence <= 422700
        /\ ~Result.matched

\* screen_test has run on two anchors at maximal distance, one observed
\* above and one below its expected colour.
C9_Witness ==
    /\ Result.done
    /\ Len(TestPixels) = 2
    /\ AllMaxDistance
    /\ TestPixels[1] = <<0, 0, 0>>
    /\ TestPixels[2] = <<255, 255, 255>>

\* C10: with factor 1.0 change_contrast moves no channel value by more than 1.
C10_ContrastOneIsIdentity ==
    (ContrastDone /\ Contrast = 10) =>
        (Pixel - PixelBefore <= 1 /\ PixelBefore - Pixel <= 1)

====
